---- MODULE Spec2Model ----
(***************************************************************************)
(* A model of src/fetchData.js: the pipeline mapExternalDataToStudies that *)
(* queries the ICDC registry, lists the IDC (archive A) and TCIA (archive  *)
(* B) image collections, fetches the TCIA series of every collection, and  *)
(* maps the fuzzy-matched collections to every study.                      *)
(*                                                                         *)
(* JavaScript values are modelled as records so that values of different   *)
(* JavaScript types stay comparable: a missing property is a missing       *)
(* record field, null is the record Null, a number is a record that is    *)
(* NaN, an infinity or the sign and the digits of an integer, a string     *)
(* whose characters matter (ImageCount, description) is a sequence of      *)
(* one-character strings.                                                  *)
(*                                                                         *)
(* The run is modelled from one await to the next: pc names the await at   *)
(* which it is suspended, and an action is the code that runs when that    *)
(* await resumes, up to the next await.                                    *)
(***************************************************************************)
EXTENDS Integers, Sequences, FiniteSets, TLC

VARIABLES
    pc,                  \* the await at which the run is suspended
    requests,            \* the retrieval calls issued so far, in order
    icdcStudies,         \* const icdcStudies (line 328)
    idcCollections,      \* const idcCollections (line 329); its records are mutated
    tciaCollections,     \* const tciaCollections (line 330)
    tciaCollectionsData, \* let tciaCollectionsData (line 142 / 331)
    seriesIdx,           \* loop index of getTciaCollectionsData (line 143)
    studyIdx,            \* loop index of collectMappings (line 300)
    collectionUrls,      \* const collectionUrls of collectMappings (line 301)
    collectionMappings,  \* const collectionMappings (line 299)
    matchIdx,            \* loop index of mapMatchesToStudy (lines 249, 264)
    matchedUrls,         \* let collectionUrls of mapMatchesToStudy (line 236)
    awaited,             \* the outcome the pending await resumes with, once it is known
    result               \* how mapExternalDataToStudies ended, and with what

vars == <<pc, requests, icdcStudies, idcCollections, tciaCollections,
          tciaCollectionsData, seriesIdx, studyIdx, collectionUrls,
          collectionMappings, matchIdx, matchedUrls, awaited, result>>

-----------------------------------------------------------------------------
(* Bounds of the model. *)

MaxStudies == 2

-----------------------------------------------------------------------------
(* Sequence helpers. *)

RECURSIVE SubSeqAt(_, _, _)
\* The elements of s at the positions of the set idx, in order, from position i on.
SubSeqAt(s, idx, i) ==
    IF i > Len(s) THEN <<>>
    ELSE (IF i \in idx THEN <<s[i]>> ELSE <<>>) \o SubSeqAt(s, idx, i + 1)

\* Every subsequence of s.
SubSeqs(s) == { SubSeqAt(s, idx, 1) : idx \in SUBSET (1..Len(s)) }

Range(s) == { s[i] : i \in 1..Len(s) }

-----------------------------------------------------------------------------
(* JavaScript values. *)

Null == [null |-> TRUE]
IsNull(v) == "null" \in DOMAIN v

Undefined == [undefined |-> TRUE]
IsUndefined(v) == "undefined" \in DOMAIN v

-----------------------------------------------------------------------------
(* Numbers. The counts are JavaScript Numbers, IEEE 754 doubles, and every *)
(* one the pipeline computes is NaN, an infinity or an integer. An integer *)
(* is kept as its sign and its digits to the base 2^15, least significant  *)
(* first and the last one not 0, so that no width of the checker limits    *)
(* it; the operations go without recursion, long integers being as cheap   *)
(* to reach as short ones.                                                 *)

\* The base of the digits.
Base == 32768

\* The binary digits of a digit of the base.
BaseBits == 15

\* The powers of two up to the base: Pow2[k + 1] is 2^k.
Pow2 ==
    <<1, 2, 4, 8, 16, 32, 64, 128, 256, 512, 1024, 2048, 4096, 8192, 16384, 32768>>

\* The digits of a natural number below the square of the base.
DigitsOf(n) ==
    IF n = 0 THEN <<>> ELSE IF n < Base THEN <<n>> ELSE <<n % Base, n \div Base>>

DigitAt(a, j) == IF j >= 1 /\ j <= Len(a) THEN a[j] ELSE 0

\* a without its leading zeros.
Trim(a) ==
    LET used == { j \in 1..Len(a) : a[j] # 0 }
    IN  IF used = {} THEN <<>>
        ELSE SubSeq(a, 1, CHOOSE j \in used : \A k \in used : k <= j)

\* The carry into digit j of a + b: a digit below it overflows and every digit
\* between passes a carry on.
CarryInto(a, b, j) ==
    IF \E i \in 1..(j - 1) :
          /\ DigitAt(a, i) + DigitAt(b, i) >= Base
          /\ \A k \in (i + 1)..(j - 1) : DigitAt(a, k) + DigitAt(b, k) = Base - 1
    THEN 1 ELSE 0

\* The exact sum of two natural numbers.
AddDigits(a, b) ==
    IF a = <<>> THEN b
    ELSE IF b = <<>> THEN a
    ELSE LET n == IF Len(a) > Len(b) THEN Len(a) ELSE Len(b)
         IN  Trim([j \in 1..(n + 1) |->
                      (DigitAt(a, j) + DigitAt(b, j) + CarryInto(a, b, j)) % Base])

\* The borrow from digit j of a - b.
BorrowFrom(a, b, j) ==
    IF \E i \in 1..(j - 1) :
          /\ DigitAt(a, i) < DigitAt(b, i)
          /\ \A k \in (i + 1)..(j - 1) : DigitAt(a, k) = DigitAt(b, k)
    THEN 1 ELSE 0

\* The exact difference a - b of two natural numbers, b at most a.
SubDigits(a, b) ==
    IF b = <<>> THEN a
    ELSE Trim([j \in 1..Len(a) |->
                  (DigitAt(a, j) - DigitAt(b, j) - BorrowFrom(a, b, j) + Base) % Base])

\* a < b on natural numbers.
LessDigits(a, b) ==
    IF Len(a) # Len(b) THEN Len(a) < Len(b)
    ELSE \E j \in 1..Len(a) :
            /\ a[j] < b[j]
            /\ \A k \in (j + 1)..Len(a) : a[k] = b[k]

\* a times m, m at most the base: digit by digit, the low parts of the products
\* plus their high parts one place up.
TimesSmall(a, m) ==
    IF a = <<>> THEN <<>>
    ELSE AddDigits(Trim([j \in 1..Len(a) |-> (a[j] * m) % Base]),
                   Trim([j \in 1..(Len(a) + 1) |->
                            IF j = 1 THEN 0 ELSE (a[j - 1] * m) \div Base]))

\* The number of binary digits of a natural number.
BitLength(a) ==
    IF a = <<>> THEN 0
    ELSE BaseBits * (Len(a) - 1)
            + CHOOSE k \in 1..BaseBits : Pow2[k] <= a[Len(a)] /\ a[Len(a)] < Pow2[k + 1]

\* Binary digit i of a natural number, the least significant being digit 1.
BitAt(a, i) ==
    (DigitAt(a, (i - 1) \div BaseBits + 1) \div Pow2[((i - 1) % BaseBits) + 1]) % 2

\* 2^q.
PowerOfTwo(q) ==
    [j \in 1..(q \div BaseBits + 1) |->
        IF j = q \div BaseBits + 1 THEN Pow2[(q % BaseBits) + 1] ELSE 0]

\* a with its q lowest binary digits set to 0.
ClearLow(a, q) ==
    Trim([j \in 1..Len(a) |->
             LET low == q - BaseBits * (j - 1)
             IN  IF low >= BaseBits THEN 0
                 ELSE IF low <= 0 THEN a[j]
                 ELSE a[j] - (a[j] % Pow2[low + 1])])

\* The significant binary digits of a double.
MantissaBits == 53

\* A double is below 2^1024.
MaxExponent == 1024

NaN == [nan |-> TRUE, inf |-> FALSE, neg |-> FALSE, digits |-> <<>>]

Infinity(neg) == [nan |-> FALSE, inf |-> TRUE, neg |-> neg, digits |-> <<>>]

\* An integer that is a double; no digits with the sign is -0.
Finite(neg, a) ==
    [nan |-> FALSE, inf |-> FALSE, neg |-> neg, digits |-> a]

\* The Number of an exact integer: the nearest double, the one with the even
\* mantissa when two are as near, an infinity from 2^1024 on.
RoundToDouble(neg, a) ==
    LET dropped == BitLength(a) - MantissaBits
        roundUp ==
            /\ BitAt(a, dropped) = 1
            /\ (BitAt(a, dropped + 1) = 1 \/ \E i \in 1..(dropped - 1) : BitAt(a, i) = 1)
        rounded ==
            IF roundUp THEN AddDigits(ClearLow(a, dropped), PowerOfTwo(dropped))
            ELSE ClearLow(a, dropped)
    IN  IF dropped <= 0 THEN Finite(neg, a)
        ELSE IF BitLength(rounded) > MaxExponent THEN Infinity(neg)
        ELSE Finite(neg, rounded)

\* A number literal of the code.
Num(v) == Finite(v < 0, DigitsOf(IF v < 0 THEN 0 - v ELSE v))

\* a + b on JavaScript numbers: the exact sum, rounded. An exact sum of zero is 0,
\* and -0 only when both operands are -0.
NumAdd(a, b) ==
    IF a.nan \/ b.nan THEN NaN
    ELSE IF a.inf \/ b.inf
    THEN (IF a.inf /\ b.inf /\ a.neg # b.neg THEN NaN ELSE IF a.inf THEN a ELSE b)
    ELSE IF a.neg = b.neg THEN RoundToDouble(a.neg, AddDigits(a.digits, b.digits))
    ELSE IF a.digits = b.digits THEN Finite(FALSE, <<>>)
    ELSE IF LessDigits(a.digits, b.digits)
    THEN RoundToDouble(b.neg, SubDigits(b.digits, a.digits))
    ELSE RoundToDouble(a.neg, SubDigits(a.digits, b.digits))

Digits == {"0", "1", "2", "3", "4", "5", "6", "7", "8", "9"}

HexDigits == Digits \cup {"a", "b", "c", "d", "e", "f", "A", "B", "C", "D", "E", "F"}

\* The line terminators of JavaScript: LF, CR, U+2028 and U+2029. A character that
\* a string of the model cannot hold is the string of its code point.
LineTerminators == {"\n", "\r", "U+2028", "U+2029"}

\* The white space \s of a regular expression and the white space parseInt skips:
\* tab, vertical tab, form feed, blank, no-break space, the byte order mark, the
\* space separators of Unicode, and the line terminators.
WhiteSpace ==
    {"\t", "U+000B", "\f", " ", "U+00A0", "U+FEFF", "U+1680", "U+2000", "U+2001",
     "U+2002", "U+2003", "U+2004", "U+2005", "U+2006", "U+2007", "U+2008", "U+2009",
     "U+200A", "U+202F", "U+205F", "U+3000"} \cup LineTerminators

DigitVal(c) ==
    CASE c = "0" -> 0 [] c = "1" -> 1 [] c = "2" -> 2 [] c = "3" -> 3
      [] c = "4" -> 4 [] c = "5" -> 5 [] c = "6" -> 6 [] c = "7" -> 7
      [] c = "8" -> 8 [] c = "9" -> 9
      [] c \in {"a", "A"} -> 10 [] c \in {"b", "B"} -> 11 [] c \in {"c", "C"} -> 12
      [] c \in {"d", "D"} -> 13 [] c \in {"e", "E"} -> 14 [] c \in {"f", "F"} -> 15

\* c is a digit of the radix.
IsDigitOf(c, radix) == c \in HexDigits /\ DigitVal(c) < radix

RECURSIVE SkipBlanks(_, _)
\* The first position from i on that holds no white space, Len(s) + 1 if there is none.
SkipBlanks(s, i) ==
    IF i > Len(s) \/ s[i] \notin WhiteSpace THEN i ELSE SkipBlanks(s, i + 1)

\* The last position of the run of digits of the radix that starts at position i,
\* i - 1 if there is none.
DigitsEnd(s, i, radix) ==
    LET others == { j \in i..Len(s) : ~IsDigitOf(s[j], radix) }
    IN  IF others = {} THEN Len(s)
        ELSE (CHOOSE j \in others : \A k \in others : j <= k) - 1

\* The digits taken at once: 10 and 16 to this power are below the base.
ChunkLen == 3

RECURSIVE RadixPower(_, _)
\* The radix to the power k, k at most ChunkLen.
RadixPower(radix, k) == IF k = 0 THEN 1 ELSE radix * RadixPower(radix, k - 1)

RECURSIVE ChunkValue(_, _, _, _)
\* What at most ChunkLen digits denote, those from position i to position last.
ChunkValue(s, i, last, radix) ==
    IF i > last THEN 0
    ELSE (ChunkValue(s, i, last - 1, radix) * radix) + DigitVal(s[last])

RECURSIVE TimesRadixPower(_, _, _)
\* a times the radix to the power k: taken by halves, as the run of digits is.
TimesRadixPower(a, k, radix) ==
    IF k = 0 \/ a = <<>> THEN a
    ELSE IF k <= ChunkLen THEN TimesSmall(a, RadixPower(radix, k))
    ELSE TimesRadixPower(TimesRadixPower(a, k \div 2, radix), k - (k \div 2), radix)

RECURSIVE ParseDigits(_, _, _, _)
\* The exact integer the digits from position i to position last denote in the
\* radix: what the first half of the run denotes, times the radix once for every
\* digit of the second half, plus what the second half denotes.
ParseDigits(s, i, last, radix) ==
    IF last - i < ChunkLen THEN DigitsOf(ChunkValue(s, i, last, radix))
    ELSE LET mid == (i + last) \div 2
         IN  AddDigits(TimesRadixPower(ParseDigits(s, i, mid, radix), last - mid, radix),
                       ParseDigits(s, mid + 1, last, radix))

\* parseInt(s) with one argument: leading white space is skipped, a sign is taken, a
\* prefix 0x or 0X makes the radix 16, and the value is that of the longest run of
\* digits that follows as a Number, NaN when there is none.
ParseInt(s) ==
    LET start == SkipBlanks(s, 1)
        signed == start <= Len(s) /\ s[start] \in {"+", "-"}
        negative == signed /\ s[start] = "-"
        body == IF signed THEN start + 1 ELSE start
        hex == body + 1 <= Len(s) /\ s[body] = "0" /\ s[body + 1] \in {"x", "X"}
        radix == IF hex THEN 16 ELSE 10
        first == IF hex THEN body + 2 ELSE body
        last == DigitsEnd(s, first, radix)
    IN  IF last < first THEN NaN
        ELSE RoundToDouble(negative, ParseDigits(s, first, last, radix))

-----------------------------------------------------------------------------
(* The external data the three sources can answer with. *)

\* Study records of the registry: numberOfCRDCNodes may be missing, and an entry of
\* the list may be null.
StudyUniverse ==
    { [clinical_study_designation |-> "GLIOMA01", numberOfImageCollections |-> 2,
       numberOfCRDCNodes |-> 2],
      [clinical_study_designation |-> "GLIOMA01", numberOfImageCollections |-> 2,
       numberOfCRDCNodes |-> 0],
      [clinical_study_designation |-> "GLIOMA02", numberOfImageCollections |-> 1,
       numberOfCRDCNodes |-> 1],
      [clinical_study_designation |-> "GLIOMA02", numberOfImageCollections |-> 1],
      [clinical_study_designation |-> "UBC01", numberOfImageCollections |-> 0,
       numberOfCRDCNodes |-> 3],
      Null }

Designation(study) == IF IsNull(study) THEN "" ELSE study.clinical_study_designation

\* A designation is unique in a run.
RECURSIVE StudyListsOfLen(_)
StudyListsOfLen(n) ==
    IF n = 0 THEN { <<>> }
    ELSE { Append(l, s) : l \in StudyListsOfLen(n - 1), s \in StudyUniverse } 

StudyLists ==
    { l \in UNION { StudyListsOfLen(n) : n \in 0..MaxStudies } :
        \A i, j \in 1..Len(l) :
            (i # j /\ ~IsNull(l[i]) /\ ~IsNull(l[j]))
                => Designation(l[i]) # Designation(l[j]) }

\* Description texts, character by character:
\*   "<b>MRI\f[1]", "<b>Glioma\n\n[1] . ICDC-Glioma" and "<b>GBM".
IdcListing ==
    << [collection_id |-> "icdc_glioma_mri",
        description |-> <<"<", "b", ">", "M", "R", "I", "\f", "[", "1", "]">>],
       [collection_id |-> "icdc_glioma",
        description |-> <<"<", "b", ">", "G", "l", "i", "o", "m", "a", "\n", "\n",
                          "[", "1", "]", " ", ".",
                          " ", "I", "C", "D", "C", "-", "G", "l", "i", "o", "m", "a">>],
       [collection_id |-> "tcga_gbm",
        description |-> <<"<", "b", ">", "G", "B", "M">>] >>

\* The answers of the IDC collections endpoint: data["collections"].
IdcResponses == SubSeqs(IdcListing)

TciaListing ==
    << [Collection |-> "ICDC-Glioma-Path"],
       [Collection |-> "ICDC-Glioma"],
       [Collection |-> "TCGA-GBM"] >>

\* The answers of the TCIA collections endpoint.
TciaResponses == SubSeqs(TciaListing)

Series(count, patient, modality, bodypart) ==
    [ImageCount |-> count, PatientID |-> patient, Modality |-> modality,
     BodyPartExamined |-> bodypart]

\* The answers of the TCIA series endpoint for one collection.
SeriesResponses ==
    { <<>>,
      << Series(<<"1", "0">>, "p1", "MR", "HEAD"),
         Series(<<"5">>, "p1", "CT", "HEAD"),
         Series(<<"0", "7">>, "p2", "MR", "BRAIN") >>,
      << Series(<<"8">>, "p3", "Histopathology", "BRAIN") >>,
      << Series(<<"n", "a">>, "p4", "MR", "HEAD") >>,
      << Series(<<"0", "x", "1", "F">>, "p5", "MR", "HEAD"),
         Series(<<"\f", "U+00A0", " ", "4", "2">>, "p5", "CT", "HEAD"),
         Series(<<"-", "7">>, "p6", "CT", "HEAD") >>,
      << Series(<<"9", "0", "0", "7", "1", "9", "9", "2", "5", "4", "7", "4", "0", "9", "0", "0">>,
                "p7", "MR", "HEAD"),
         Series(<<"8">>, "p7", "MR", "HEAD") >>,
      << Series(<<"9", "0", "0", "7", "1", "9", "9", "2", "5", "4", "7", "4", "0", "9", "9", "2">>,
                "p8", "MR", "HEAD"),
         Series(<<"1">>, "p8", "MR", "HEAD") >> }

-----------------------------------------------------------------------------
(* The libraries fetchData.js imports. *)

\* String.prototype.includes over the identifiers of the listings.
StrIncludes(s, key) ==
    \/ key = "icdc_" /\ s \in {"icdc_glioma_mri", "icdc_glioma"}
    \/ key = "ICDC-" /\ s \in {"ICDC-Glioma-Path", "ICDC-Glioma"}

\* fast-fuzzy's score of a candidate for a term, in tenths.
Score(term, candidate) ==
    CASE term \in {"GLIOMA01", "GLIOMA02"} /\ candidate \in {"icdc_glioma", "ICDC-Glioma"} -> 8
      [] term \in {"GLIOMA01", "GLIOMA02"}
           /\ candidate \in {"icdc_glioma_mri", "ICDC-Glioma-Path"} -> 6
      [] OTHER -> 2

\* fast-fuzzy's default threshold, in tenths.
Threshold == 6

MaxScore == 10

RECURSIVE RankFrom(_, _, _)
RankFrom(term, candidates, score) ==
    IF score < Threshold THEN <<>>
    ELSE SelectSeq(candidates, LAMBDA c : Score(term, c) = score)
            \o RankFrom(term, candidates, score - 1)

\* search(term, candidates): the candidates that reach the threshold, best first,
\* equal scores in the order of the candidates.
search(term, candidates) == RankFrom(term, candidates, MaxScore)

RECURSIVE TagEnd(_, _)
\* The position of the first ">" from i on, 0 if there is none.
TagEnd(html, i) ==
    IF i > Len(html) THEN 0 ELSE IF html[i] = ">" THEN i ELSE TagEnd(html, i + 1)

RECURSIVE DropTags(_, _)
DropTags(html, i) ==
    IF i > Len(html) THEN <<>>
    ELSE IF html[i] = "<" /\ TagEnd(html, i) # 0 THEN DropTags(html, TagEnd(html, i) + 1)
    ELSE <<html[i]>> \o DropTags(html, i + 1)

\* htmlToText(html, {wordwrap: null}): the markup tags are dropped.
htmlToText(html) == DropTags(html, 1)

RECURSIVE BracketEnd(_, _)
\* .*?\] from position i on: the position of the first "]", 0 if a line ends (the
\* dot takes no line terminator) or the text ends before one.
BracketEnd(text, i) ==
    IF i > Len(text) \/ text[i] \in LineTerminators THEN 0
    ELSE IF text[i] = "]" THEN i
    ELSE BracketEnd(text, i + 1)

\* \s*\[.*?\]\s* at position i: the position after the match, 0 if there is none.
MatchBracket(text, i) ==
    LET open == SkipBlanks(text, i)
    IN  IF open <= Len(text) /\ text[open] = "[" /\ BracketEnd(text, open + 1) # 0
        THEN SkipBlanks(text, BracketEnd(text, open + 1) + 1)
        ELSE 0

RECURSIVE ReplaceBreaks(_, _)
\* .replace(/\n\n|\s*\[.*?\]\s*/g, " ") from position i on: at every position the
\* double newline is tried first, then the bracket with the white space around it.
ReplaceBreaks(text, i) ==
    IF i > Len(text) THEN <<>>
    ELSE IF i < Len(text) /\ text[i] = "\n" /\ text[i + 1] = "\n"
    THEN <<" ">> \o ReplaceBreaks(text, i + 2)
    ELSE IF MatchBracket(text, i) # 0
    THEN <<" ">> \o ReplaceBreaks(text, MatchBracket(text, i))
    ELSE <<text[i]>> \o ReplaceBreaks(text, i + 1)

RECURSIVE ReplacePeriods(_, _)
\* .replace(/ \./g, ".") from position i on.
ReplacePeriods(text, i) ==
    IF i > Len(text) THEN <<>>
    ELSE IF i < Len(text) /\ text[i] = " " /\ text[i + 1] = "."
    THEN <<".">> \o ReplacePeriods(text, i + 2)
    ELSE <<text[i]>> \o ReplacePeriods(text, i + 1)

\* String.prototype.replace(word, ""): the first occurrence of word goes.
RemoveFirst(text, word) ==
    LET at == { i \in 1..(Len(text) - Len(word) + 1) :
                    SubSeq(text, i, i + Len(word) - 1) = word }
    IN  IF at = {} THEN text
        ELSE LET i == CHOOSE j \in at : \A k \in at : j <= k
             IN  SubSeq(text, 1, i - 1) \o SubSeq(text, i + Len(word), Len(text))

\* The cleanup of the description for GLIOMA01: lines 169-172.
CleanGlioma(text) ==
    RemoveFirst(ReplacePeriods(ReplaceBreaks(text, 1), 1),
                <<" ", "I", "C", "D", "C", "-", "G", "l", "i", "o", "m", "a">>)

\* filterObjectArray(array, property, key)
filterObjectArray(array, property, key) ==
    SelectSeq(array, LAMBDA obj : StrIncludes(obj[property], key))

-----------------------------------------------------------------------------
(* How a call ends: with a value, or by throwing. *)

Return(v) == [threw |-> FALSE, value |-> v]
Throw(e) == [threw |-> TRUE, error |-> e]

\* The answer of an endpoint: a transport or parse failure, or the parsed body.
Failure == [failed |-> TRUE]
Answer(data) == [failed |-> FALSE, data |-> data]

\* errorName.BENTO_BACKEND_NOT_CONNECTED
BENTO_BACKEND_NOT_CONNECTED == "BENTO_BACKEND_NOT_CONNECTED"

\* What reading a property of null or undefined throws.
TypeError == "TypeError"

IDC_COLLECTION_BASE_URL == "IDC_COLLECTION_BASE_URL"
TCIA_COLLECTION_BASE_URL == "TCIA_COLLECTION_BASE_URL"

\* `${base}${name}`
Url(base, name) == <<base, name>>

-----------------------------------------------------------------------------
(* The fetch functions, as functions of the endpoint's answer. *)

\* A getIdcCollections whose catch lets the failure out.
getIdcCollectionsRethrows(resp) ==
    IF resp.failed THEN Throw("FetchError")
    ELSE Return(filterObjectArray(resp.data, "collection_id", "icdc_"))

getIdcCollections(resp) ==
    IF resp.failed THEN Return(<<>>)
    ELSE Return(filterObjectArray(resp.data, "collection_id", "icdc_"))

getTciaCollections(resp) ==
    IF resp.failed THEN Return(<<>>)
    ELSE LET filtered == filterObjectArray(resp.data, "Collection", "ICDC-")
         IN  Return([i \in 1..Len(filtered) |-> filtered[i].Collection])

\* A getTciaCollectionData whose catch lets the failure out.
getTciaCollectionDataRethrows(resp) ==
    IF resp.failed THEN Throw("FetchError") ELSE Return(resp.data)

getTciaCollectionData(resp) ==
    IF resp.failed THEN Return(<<>>) ELSE Return(resp.data)

\* A getIcdcStudyData that takes a response without studiesByProgram for a failure.
getIcdcStudyDataValidates(resp) ==
    IF resp.failed \/ IsUndefined(resp.data)
    THEN Throw(BENTO_BACKEND_NOT_CONNECTED)
    ELSE Return(resp.data)

\* data.data?.studiesByProgram is returned as it is, undefined included.
getIcdcStudyData(resp) ==
    IF resp.failed THEN Throw(BENTO_BACKEND_NOT_CONNECTED) ELSE Return(resp.data)

-----------------------------------------------------------------------------
(* The metadata aggregators. *)

RECURSIVE DistinctFrom(_, _, _)
\* [...new Set(s)]: the values of s without repetition, in the order first seen.
DistinctFrom(s, i, acc) ==
    IF i > Len(s) THEN acc
    ELSE DistinctFrom(s, i + 1, IF s[i] \in Range(acc) THEN acc ELSE Append(acc, s[i]))

Distinct(s) == DistinctFrom(s, 1, <<>>)

RECURSIVE ReduceImageCount(_, _, _)
\* reduce((tot, obj) => tot + parseInt(obj.ImageCount), 0)
ReduceImageCount(series, i, tot) ==
    IF i > Len(series) THEN tot
    ELSE ReduceImageCount(series, i + 1, NumAdd(tot, ParseInt(series[i].ImageCount)))

\* Array.prototype.find on collection_id: the position of the first record found, 0
\* for undefined.
FindCollection(idcColls, collectionId) ==
    IF \E i \in 1..Len(idcColls) : idcColls[i].collection_id = collectionId
    THEN CHOOSE i \in 1..Len(idcColls) :
            /\ idcColls[i].collection_id = collectionId
            /\ \A j \in 1..(i - 1) : idcColls[j].collection_id # collectionId
    ELSE 0

\* The record found is an element of idcCollections itself: the value returned is a
\* reference to it (its position), and the description is replaced in that record.
getIdcCollectionMetadata(collectionId, idcColls, icdcStudy) ==
    LET idx == FindCollection(idcColls, collectionId)
    IN  IF idx = 0 THEN Throw(TypeError) @@ [collections |-> idcColls]
        ELSE LET cleanedDescText == htmlToText(idcColls[idx].description)
                 description ==
                     IF icdcStudy.clinical_study_designation = "GLIOMA01"
                     THEN CleanGlioma(cleanedDescText)
                     ELSE cleanedDescText
             IN  Return([ref |-> idx])
                    @@ [collections |-> [idcColls EXCEPT ![idx].description = description]]

\* A special case that takes every designation starting with GLIOMA.
IsGliomaStudyByPrefix(icdcStudy) ==
    icdcStudy.clinical_study_designation \in {"GLIOMA01", "GLIOMA02"}

\* icdcStudy.clinical_study_designation === "GLIOMA01" (line 207)
IsGliomaStudy(icdcStudy) == icdcStudy.clinical_study_designation = "GLIOMA01"

getTciaCollectionMetadata(collectionId, tciaData, icdcStudy) ==
    LET tciaCollectionMetadata == tciaData[collectionId]
        n == Len(tciaCollectionMetadata)
        summed == ReduceImageCount(tciaCollectionMetadata, 1, Num(0))
        totalPatients ==
            Len(Distinct([i \in 1..n |-> tciaCollectionMetadata[i].PatientID]))
        modalities == Distinct([i \in 1..n |-> tciaCollectionMetadata[i].Modality])
        uniqueBodypartsExamined ==
            Distinct([i \in 1..n |-> tciaCollectionMetadata[i].BodyPartExamined])
        glioma == IsGliomaStudy(icdcStudy)
    IN  [Collection |-> collectionId,
         Aggregate_PatientID |-> totalPatients,
         Aggregate_Modality |->
            IF glioma THEN Append(modalities, "Histopathology") ELSE modalities,
         Aggregate_BodyPartExamined |-> uniqueBodypartsExamined,
         Aggregate_ImageCount |-> IF glioma THEN NumAdd(summed, Num(84)) ELSE summed]

-----------------------------------------------------------------------------
(* The study matcher. *)

RECURSIVE IdcMatchLoop(_, _, _, _, _)
\* for (const match in idcMatches): lines 249-261. A throw ends the loop.
IdcMatchLoop(idcMatches, match, idcColls, urls, icdcStudy) ==
    IF match > Len(idcMatches) THEN Return(urls) @@ [collections |-> idcColls]
    ELSE LET meta == getIdcCollectionMetadata(idcMatches[match], idcColls, icdcStudy)
         IN  IF meta.threw THEN meta
             ELSE IdcMatchLoop(idcMatches, match + 1, meta.collections,
                      Append(urls, [repository |-> "IDC",
                                    url |-> Url(IDC_COLLECTION_BASE_URL, idcMatches[match]),
                                    metadata |-> meta.value]),
                      icdcStudy)

\* A check that lets an empty series list through.
HasSeriesOrEmpty(tciaData, name) == name \in DOMAIN tciaData /\ Len(tciaData[name]) >= 0

\* tciaCollectionsData[name]?.length > 0
HasSeries(tciaData, name) == name \in DOMAIN tciaData /\ Len(tciaData[name]) > 0

RECURSIVE TciaMatchLoop(_, _, _, _, _)
\* for (const match in tciaMatches): lines 264-278.
TciaMatchLoop(tciaMatches, match, tciaData, urls, icdcStudy) ==
    IF match > Len(tciaMatches) THEN urls
    ELSE TciaMatchLoop(tciaMatches, match + 1, tciaData,
            IF HasSeries(tciaData, tciaMatches[match])
            THEN Append(urls, [repository |-> "TCIA",
                               url |-> Url(TCIA_COLLECTION_BASE_URL, tciaMatches[match]),
                               metadata |-> getTciaCollectionMetadata(
                                                tciaMatches[match], tciaData, icdcStudy)])
            ELSE urls,
            icdcStudy)

\* Reading clinical_study_designation of a null study throws (line 240).
mapMatchesToStudy(icdcStudy, idcColls, tciaColls, tciaData) ==
    IF IsNull(icdcStudy) THEN Throw(TypeError) @@ [collections |-> idcColls]
    ELSE LET idcMatches ==
                 search(icdcStudy.clinical_study_designation,
                        [i \in 1..Len(idcColls) |-> idcColls[i].collection_id])
             tciaMatches == search(icdcStudy.clinical_study_designation, tciaColls)
             idc == IdcMatchLoop(idcMatches, 1, idcColls, <<>>, icdcStudy)
         IN  IF idc.threw THEN idc
             ELSE Return(TciaMatchLoop(tciaMatches, 1, tciaData, idc.value, icdcStudy))
                    @@ [collections |-> idc.collections]

-----------------------------------------------------------------------------
(* The mapping collector. *)

\* A filter that lets a count of zero through.
HasCRDCNodesOrZero(icdcStudy) ==
    /\ ~IsNull(icdcStudy)
    /\ "numberOfCRDCNodes" \in DOMAIN icdcStudy
    /\ icdcStudy.numberOfCRDCNodes >= 0

\* icdcStudies[study]?.numberOfCRDCNodes > 0: false for a missing count.
HasCRDCNodes(icdcStudy) ==
    /\ ~IsNull(icdcStudy)
    /\ "numberOfCRDCNodes" \in DOMAIN icdcStudy
    /\ icdcStudy.numberOfCRDCNodes > 0

\* The mapping pushed for a study: lines 308-314.
StudyMapping(icdcStudy, urls) ==
    [CRDCLinks |-> urls,
     numberOfCRDCNodes |-> icdcStudy.numberOfCRDCNodes,
     numberOfImageCollections |-> icdcStudy.numberOfImageCollections,
     clinical_study_designation |-> icdcStudy.clinical_study_designation]

\* The link pushed for a match: lines 256-260 and 272-276.
Link(repository, base, name, metadata) ==
    [repository |-> repository, url |-> Url(base, name), metadata |-> metadata]

RECURSIVE RunToAwait(_, _, _, _)
\* The collection runs without interruption from a point of its code to its next
\* await. frame holds what the run can change, frame.pc the point: "loopHead" is line
\* 300, "idcLoop" line 249, "tciaLoop" line 264; the value has the pc of the await
\* reached and the outcome that await will resume with. getIdcCollectionMetadata is
\* called, and rewrites the description, before the await of line 251 suspends. A throw
\* inside mapMatchesToStudy rejects its promise, which the await of line 301 receives.
RunToAwait(frame, studies, tciaColls, tciaData) ==
    LET icdcStudy == studies[frame.studyIdx]
        idcMatches ==
            search(icdcStudy.clinical_study_designation,
                   [i \in 1..Len(frame.idcCollections) |->
                        frame.idcCollections[i].collection_id])
        tciaMatches == search(icdcStudy.clinical_study_designation, tciaColls)
    IN  CASE frame.pc = "loopHead" ->
                IF frame.studyIdx > Len(studies)
                THEN [frame EXCEPT !.pc = "awaitMappings",
                                   !.awaited = Return(frame.collectionMappings)]
                ELSE IF IsNull(icdcStudy)
                THEN [frame EXCEPT !.pc = "awaitMatches", !.matchedUrls = <<>>,
                                   !.awaited = Throw(TypeError)]
                ELSE RunToAwait([frame EXCEPT !.pc = "idcLoop", !.matchIdx = 1,
                                              !.matchedUrls = <<>>],
                                studies, tciaColls, tciaData)
          [] frame.pc = "idcLoop" ->
                IF frame.matchIdx > Len(idcMatches)
                THEN RunToAwait([frame EXCEPT !.pc = "tciaLoop", !.matchIdx = 1],
                                studies, tciaColls, tciaData)
                ELSE LET meta == getIdcCollectionMetadata(idcMatches[frame.matchIdx],
                                     frame.idcCollections, icdcStudy)
                     IN  IF meta.threw
                         THEN [frame EXCEPT !.pc = "awaitMatches",
                                            !.awaited = Throw(meta.error)]
                         ELSE [frame EXCEPT !.pc = "awaitIdcMetadata",
                                            !.idcCollections = meta.collections,
                                            !.awaited = Return(meta.value)]
          [] frame.pc = "tciaLoop" ->
                IF frame.matchIdx > Len(tciaMatches)
                THEN [frame EXCEPT !.pc = "awaitMatches",
                                   !.awaited = Return(frame.matchedUrls)]
                ELSE IF HasSeries(tciaData, tciaMatches[frame.matchIdx])
                THEN [frame EXCEPT !.pc = "awaitTciaMetadata",
                                   !.awaited = Return(getTciaCollectionMetadata(
                                       tciaMatches[frame.matchIdx], tciaData, icdcStudy))]
                ELSE RunToAwait([frame EXCEPT !.matchIdx = frame.matchIdx + 1],
                                studies, tciaColls, tciaData)

\* The studies for...in iterates: none when icdcStudies is undefined.
StudiesOf(studies) == IF IsUndefined(studies) THEN <<>> ELSE studies.list

-----------------------------------------------------------------------------
(* mapExternalDataToStudies. *)

Pending == [outcome |-> "pending", isError |-> FALSE, error |-> "", mappings |-> <<>>]

\* return collectionMappings (line 338)
ReturnMappings(mappings) ==
    [outcome |-> "returned", isError |-> FALSE, error |-> "", mappings |-> mappings]

\* A catch that throws the error again.
TopLevelCatchRethrows(error) ==
    [outcome |-> "raised", isError |-> TRUE, error |-> error, mappings |-> <<>>]

\* catch (error) { console.error(error); return error; } (lines 339-342)
TopLevelCatch(error) ==
    [outcome |-> "returned", isError |-> TRUE, error |-> error, mappings |-> <<>>]

\* The archive listings called in the other order.
NextCallTciaFirst(completed) ==
    CASE completed = "primary" -> "callTcia"
      [] completed = "tcia" -> "callIdc"
      [] completed = "idc" -> "callSeries"

\* The call that follows a completed one: lines 328-331.
NextCall(completed) ==
    CASE completed = "primary" -> "callIdc"
      [] completed = "idc" -> "callTcia"
      [] completed = "tcia" -> "callSeries"

Request(kind, arg) == [kind |-> kind, arg |-> arg, status |-> "inflight", data |-> <<>>]

\* The last request, completed with the endpoint's answer.
Completed(reqs, resp) ==
    [reqs EXCEPT ![Len(reqs)].status = IF resp.failed THEN "failed" ELSE "ok",
                 ![Len(reqs)].data = IF resp.failed \/ reqs[Len(reqs)].kind # "series"
                                     THEN <<>> ELSE resp.data]

PrimaryAnswers ==
    {Failure, Answer(Undefined)} \cup { Answer([list |-> l]) : l \in StudyLists }
IdcAnswers == {Failure} \cup { Answer(l) : l \in IdcResponses }
TciaAnswers == {Failure} \cup { Answer(l) : l \in TciaResponses }
SeriesAnswers == {Failure} \cup { Answer(l) : l \in SeriesResponses }

Init ==
    /\ pc = "callPrimary"
    /\ requests = <<>>
    /\ icdcStudies = Undefined
    /\ idcCollections = <<>>
    /\ tciaCollections = <<>>
    /\ tciaCollectionsData = <<>>
    /\ seriesIdx = 1
    /\ studyIdx = 1
    /\ collectionUrls = <<>>
    /\ collectionMappings = <<>>
    /\ matchIdx = 1
    /\ matchedUrls = <<>>
    /\ awaited = Return(Null)
    /\ result = Pending

\* The requests once the call is made: a listing function sends its fetch, and
\* getTciaCollectionsData sends the fetch for names[idx], none when no name remains
\* (line 143).
Called(call, reqs, names, idx) ==
    CASE call = "callIdc" -> Append(reqs, Request("idc", ""))
      [] call = "callTcia" -> Append(reqs, Request("tcia", ""))
      [] call = "callSeries" ->
            IF idx > Len(names) THEN reqs ELSE Append(reqs, Request("series", names[idx]))

\* The await at which the run is suspended once the call is made: that of the fetch,
\* or that of line 331 when getTciaCollectionsData has returned.
SuspendedAt(call, names, idx) ==
    CASE call = "callIdc" -> "awaitIdc"
      [] call = "callTcia" -> "awaitTcia"
      [] call = "callSeries" -> IF idx > Len(names) THEN "collect" ELSE "awaitSeries"

\* The await of a fetch resumes (lines 27, 51, 73, 102). With a response,
\* response.json() is called and awaited (lines 30, 54, 76, 106); with a rejection the
\* catch of the function ends the call with the outcome rejected.
FetchResumes(atFetch, atJson, ended, rejected) ==
    /\ pc = atFetch
    /\ \/ /\ pc' = atJson
          /\ UNCHANGED <<requests, awaited>>
       \/ /\ pc' = ended
          /\ requests' = Completed(requests, Failure)
          /\ awaited' = rejected
    /\ UNCHANGED <<icdcStudies, idcCollections, tciaCollections, tciaCollectionsData,
                   seriesIdx, studyIdx, collectionUrls, collectionMappings, matchIdx,
                   matchedUrls, result>>

\* The await of response.json() resumes with the endpoint's answer resp, and the
\* function runs to its end with the outcome r; the caller's await has not resumed.
JsonResumes(atJson, ended, resp, r) ==
    /\ pc = atJson
    /\ pc' = ended
    /\ requests' = Completed(requests, resp)
    /\ awaited' = r
    /\ UNCHANGED <<icdcStudies, idcCollections, tciaCollections, tciaCollectionsData,
                   seriesIdx, studyIdx, collectionUrls, collectionMappings, matchIdx,
                   matchedUrls, result>>

\* mapExternalDataToStudies is called: getIcdcStudyData sends the query and is
\* suspended at the await of line 102.
IssuePrimary ==
    /\ pc = "callPrimary"
    /\ requests' = Append(requests, Request("primary", ""))
    /\ pc' = "awaitPrimary"
    /\ UNCHANGED <<icdcStudies, idcCollections, tciaCollections, tciaCollectionsData,
                   seriesIdx, studyIdx, collectionUrls, collectionMappings, matchIdx,
                   matchedUrls, awaited, result>>

PrimaryFetchResumes ==
    FetchResumes("awaitPrimary", "jsonPrimary", "endedPrimary", getIcdcStudyData(Failure))

PrimaryJsonResumes ==
    \E resp \in PrimaryAnswers :
        JsonResumes("jsonPrimary", "endedPrimary", resp, getIcdcStudyData(resp))

\* The await of line 328 resumes: a throw of getIcdcStudyData lands in the catch of
\* line 339; a value is stored and getIdcCollections is called (line 329).
PrimaryAwaitResumes ==
    /\ pc = "endedPrimary"
    /\ IF awaited.threw
       THEN /\ result' = TopLevelCatch(awaited.error)
            /\ pc' = "done"
            /\ UNCHANGED <<icdcStudies, requests>>
       ELSE /\ icdcStudies' = awaited.value
            /\ requests' = Called(NextCall("primary"), requests, tciaCollections, seriesIdx)
            /\ pc' = SuspendedAt(NextCall("primary"), tciaCollections, seriesIdx)
            /\ UNCHANGED result
    /\ awaited' = Return(Null)
    /\ UNCHANGED <<idcCollections, tciaCollections, tciaCollectionsData, seriesIdx,
                   studyIdx, collectionUrls, collectionMappings, matchIdx, matchedUrls>>

IdcFetchResumes ==
    FetchResumes("awaitIdc", "jsonIdc", "endedIdc", getIdcCollections(Failure))

IdcJsonResumes ==
    \E resp \in IdcAnswers :
        JsonResumes("jsonIdc", "endedIdc", resp, getIdcCollections(resp))

\* The await of line 329 resumes: the listing is stored and getTciaCollections is
\* called (line 330).
IdcAwaitResumes ==
    /\ pc = "endedIdc"
    /\ IF awaited.threw
       THEN /\ result' = TopLevelCatch(awaited.error)
            /\ pc' = "done"
            /\ UNCHANGED <<idcCollections, requests>>
       ELSE /\ idcCollections' = awaited.value
            /\ requests' = Called(NextCall("idc"), requests, tciaCollections, seriesIdx)
            /\ pc' = SuspendedAt(NextCall("idc"), tciaCollections, seriesIdx)
            /\ UNCHANGED result
    /\ awaited' = Return(Null)
    /\ UNCHANGED <<icdcStudies, tciaCollections, tciaCollectionsData, seriesIdx,
                   studyIdx, collectionUrls, collectionMappings, matchIdx, matchedUrls>>

TciaFetchResumes ==
    FetchResumes("awaitTcia", "jsonTcia", "endedTcia", getTciaCollections(Failure))

TciaJsonResumes ==
    \E resp \in TciaAnswers :
        JsonResumes("jsonTcia", "endedTcia", resp, getTciaCollections(resp))

\* The await of line 330 resumes: the names are stored and getTciaCollectionsData is
\* called with them (line 331), which runs to its first await or to its return.
TciaAwaitResumes ==
    /\ pc = "endedTcia"
    /\ IF awaited.threw
       THEN /\ result' = TopLevelCatch(awaited.error)
            /\ pc' = "done"
            /\ UNCHANGED <<tciaCollections, requests>>
       ELSE /\ tciaCollections' = awaited.value
            /\ requests' = Called(NextCall("tcia"), requests, awaited.value, seriesIdx)
            /\ pc' = SuspendedAt(NextCall("tcia"), awaited.value, seriesIdx)
            /\ UNCHANGED result
    /\ awaited' = Return(Null)
    /\ UNCHANGED <<icdcStudies, idcCollections, tciaCollectionsData, seriesIdx,
                   studyIdx, collectionUrls, collectionMappings, matchIdx, matchedUrls>>

SeriesFetchResumes ==
    FetchResumes("awaitSeries", "jsonSeries", "endedSeries", getTciaCollectionData(Failure))

SeriesJsonResumes ==
    \E resp \in SeriesAnswers :
        JsonResumes("jsonSeries", "endedSeries", resp, getTciaCollectionData(resp))

\* The await of line 144 resumes: the value is stored under the name (line 147) and
\* the loop goes on to the request for the next name, or getTciaCollectionsData
\* returns (line 149).
SeriesAwaitResumes ==
    /\ pc = "endedSeries"
    /\ IF awaited.threw
       THEN /\ result' = TopLevelCatch(awaited.error)
            /\ pc' = "done"
            /\ UNCHANGED <<tciaCollectionsData, seriesIdx, requests>>
       ELSE /\ tciaCollectionsData' =
                  (tciaCollections[seriesIdx] :> awaited.value) @@ tciaCollectionsData
            /\ seriesIdx' = seriesIdx + 1
            /\ requests' = Called("callSeries", requests, tciaCollections, seriesIdx + 1)
            /\ pc' = SuspendedAt("callSeries", tciaCollections, seriesIdx + 1)
            /\ UNCHANGED result
    /\ awaited' = Return(Null)
    /\ UNCHANGED <<icdcStudies, idcCollections, tciaCollections, studyIdx,
                   collectionUrls, collectionMappings, matchIdx, matchedUrls>>

\* What the collection can change, as one record.
Frame ==
    [pc |-> pc, idcCollections |-> idcCollections, studyIdx |-> studyIdx,
     collectionUrls |-> collectionUrls, collectionMappings |-> collectionMappings,
     matchIdx |-> matchIdx, matchedUrls |-> matchedUrls, awaited |-> awaited]

\* The state in which a run suspends.
Suspend(frame) ==
    /\ pc' = frame.pc
    /\ idcCollections' = frame.idcCollections
    /\ studyIdx' = frame.studyIdx
    /\ collectionUrls' = frame.collectionUrls
    /\ collectionMappings' = frame.collectionMappings
    /\ matchIdx' = frame.matchIdx
    /\ matchedUrls' = frame.matchedUrls
    /\ awaited' = frame.awaited
    /\ UNCHANGED <<requests, icdcStudies, tciaCollections, tciaCollectionsData,
                   seriesIdx, result>>

\* The await of line 331 resumes: collectMappings is called (line 332) and runs, through
\* its call of mapMatchesToStudy, to the first await.
CollectMappingsCalled ==
    /\ pc = "collect"
    /\ Suspend(RunToAwait([Frame EXCEPT !.pc = "loopHead", !.studyIdx = 1,
                                        !.collectionMappings = <<>>],
                          StudiesOf(icdcStudies), tciaCollections, tciaCollectionsData))

\* The await of line 251 resumes: the link is pushed and the loop goes on.
IdcMetadataResumes ==
    /\ pc = "awaitIdcMetadata"
    /\ LET studies == StudiesOf(icdcStudies)
           idcMatches ==
               search(studies[studyIdx].clinical_study_designation,
                      [i \in 1..Len(idcCollections) |-> idcCollections[i].collection_id])
           link == Link("IDC", IDC_COLLECTION_BASE_URL, idcMatches[matchIdx], awaited.value)
       IN  Suspend(RunToAwait([Frame EXCEPT !.pc = "idcLoop",
                                            !.matchedUrls = Append(matchedUrls, link),
                                            !.matchIdx = matchIdx + 1],
                              studies, tciaCollections, tciaCollectionsData))

\* The await of line 267 resumes: the link is pushed and the loop goes on.
TciaMetadataResumes ==
    /\ pc = "awaitTciaMetadata"
    /\ LET studies == StudiesOf(icdcStudies)
           tciaMatches ==
               search(studies[studyIdx].clinical_study_designation, tciaCollections)
           link == Link("TCIA", TCIA_COLLECTION_BASE_URL, tciaMatches[matchIdx],
                        awaited.value)
       IN  Suspend(RunToAwait([Frame EXCEPT !.pc = "tciaLoop",
                                            !.matchedUrls = Append(matchedUrls, link),
                                            !.matchIdx = matchIdx + 1],
                              studies, tciaCollections, tciaCollectionsData))

\* The await of line 301 resumes. With a rejection collectMappings rejects in turn,
\* which the await of line 332 receives; otherwise the mapping is pushed if the study
\* has nodes (lines 307-315) and the loop goes on with the next study.
MatchesResume ==
    /\ pc = "awaitMatches"
    /\ LET studies == StudiesOf(icdcStudies)
           icdcStudy == studies[studyIdx]
       IN  IF awaited.threw
           THEN Suspend([Frame EXCEPT !.pc = "awaitMappings"])
           ELSE Suspend(RunToAwait(
                    [Frame EXCEPT !.pc = "loopHead",
                                  !.collectionUrls = awaited.value,
                                  !.collectionMappings =
                                      IF HasCRDCNodes(icdcStudy)
                                      THEN Append(collectionMappings,
                                                  StudyMapping(icdcStudy, awaited.value))
                                      ELSE collectionMappings,
                                  !.studyIdx = studyIdx + 1],
                    studies, tciaCollections, tciaCollectionsData))

\* The await of line 332 resumes: return collectionMappings (line 338), or the catch
\* of line 339 with a rejection.
CollectReturns ==
    /\ pc = "awaitMappings"
    /\ result' = IF awaited.threw THEN TopLevelCatch(awaited.error)
                 ELSE ReturnMappings(awaited.value)
    /\ pc' = "done"
    /\ UNCHANGED <<requests, icdcStudies, idcCollections, tciaCollections,
                   tciaCollectionsData, seriesIdx, studyIdx, collectionUrls,
                   collectionMappings, matchIdx, matchedUrls, awaited>>

Next ==
    \/ IssuePrimary
    \/ PrimaryFetchResumes
    \/ PrimaryJsonResumes
    \/ PrimaryAwaitResumes
    \/ IdcFetchResumes
    \/ IdcJsonResumes
    \/ IdcAwaitResumes
    \/ TciaFetchResumes
    \/ TciaJsonResumes
    \/ TciaAwaitResumes
    \/ SeriesFetchResumes
    \/ SeriesJsonResumes
    \/ SeriesAwaitResumes
    \/ CollectMappingsCalled
    \/ IdcMetadataResumes
    \/ TciaMetadataResumes
    \/ MatchesResume
    \/ CollectReturns

Spec == Init /\ [][Next]_vars

-----------------------------------------------------------------------------
(* Vocabulary of the properties. *)

Studies == StudiesOf(icdcStudies)

PrimaryFailed == Len(requests) >= 1 /\ requests[1].status = "failed"
PrimaryOk == Len(requests) >= 1 /\ requests[1].status = "ok"

FailedKind(kind) ==
    \E i \in 1..Len(requests) : requests[i].kind = kind /\ requests[i].status = "failed"

OkKind(kind) ==
    \E i \in 1..Len(requests) : requests[i].kind = kind /\ requests[i].status = "ok"

\* A retrieval call is pending: its fetch or its body is awaited, or it has ended
\* and the await of its caller has not resumed.
Fetching ==
    pc \in {"awaitPrimary", "jsonPrimary", "endedPrimary", "awaitIdc", "jsonIdc", "endedIdc",
            "awaitTcia", "jsonTcia", "endedTcia", "awaitSeries", "jsonSeries", "endedSeries"}

\* The caller has received the outcome of request i.
Received(i) == i < Len(requests) \/ ~Fetching

\* The series data is complete: the run is suspended in the collection, or before it
\* at the await of line 331.
Collecting ==
    pc \in {"collect", "awaitIdcMetadata", "awaitTciaMetadata", "awaitMatches",
            "awaitMappings"}

NoNullStudy == \A i \in 1..Len(Studies) : ~IsNull(Studies[i])

\* crdcNodeCount > 0, as the data model states it.
PositiveNodeCount(study) ==
    /\ ~IsNull(study)
    /\ "numberOfCRDCNodes" \in DOMAIN study
    /\ study.numberOfCRDCNodes >= 1

\* The archive B names a study matches and that have at least one series.
MatchedWithSeries(study) ==
    SelectSeq(search(Designation(study), tciaCollections),
              LAMBDA n : n \in DOMAIN tciaCollectionsData
                         /\ tciaCollectionsData[n] # <<>>)

\* The links of one repository among urls, in order.
LinksOf(urls, repository) == SelectSeq(urls, LAMBDA u : u.repository = repository)

\* The study the last iteration of collectMappings matched.
LastStudy == Studies[studyIdx - 1]

-----------------------------------------------------------------------------
(* C1: when the primary registry query fails, the run never returns a value *)
(* to its caller (it raises the backend-unreachable failure instead).       *)
C1_PrimaryFailureNeverReturns ==
    PrimaryFailed => result.outcome # "returned"

(* C2: when the primary query succeeds, a failed archive fetch leaves an    *)
(* empty result in its place, and the run returns mappings, not an error:   *)
(* one mapping per study with a positive node count, each with the archive  *)
(* B links of the collections it matches.                                   *)
C2_FailedFetchesDegrade ==
    /\ FailedKind("idc") => idcCollections = <<>>
    /\ FailedKind("tcia") => tciaCollections = <<>>
    /\ \A i \in 1..Len(requests) :
          (requests[i].kind = "series" /\ requests[i].status = "failed" /\ Received(i))
              => /\ requests[i].arg \in DOMAIN tciaCollectionsData
                 /\ tciaCollectionsData[requests[i].arg] = <<>>
    /\ (PrimaryOk /\ NoNullStudy) => ~result.isError
    /\ (pc = "done" /\ PrimaryOk /\ NoNullStudy) =>
          LET kept == SelectSeq(Studies, PositiveNodeCount)
          IN  /\ result.outcome = "returned"
              /\ Len(result.mappings) = Len(kept)
              /\ \A i \in 1..Len(kept) :
                    /\ result.mappings[i].clinical_study_designation
                          = kept[i].clinical_study_designation
                    /\ LET b == LinksOf(result.mappings[i].CRDCLinks, "TCIA")
                       IN  [j \in 1..Len(b) |-> b[j].metadata.Collection]
                              = MatchedWithSeries(kept[i])

\* Only the archive A listing failed, and a returned mapping carries an archive B link.
C2_Witness ==
    /\ pc = "done"
    /\ FailedKind("idc") /\ ~FailedKind("tcia") /\ ~FailedKind("series")
    /\ ~result.isError
    /\ \E i \in 1..Len(result.mappings) :
          LinksOf(result.mappings[i].CRDCLinks, "TCIA") # <<>>

(* C3: a failure after the primary query never raises out of the run: it is *)
(* caught and the error caught is the value the run returns.                *)
C3_LaterFailuresAreReturned ==
    PrimaryOk =>
        /\ result.outcome # "raised"
        /\ pc = "done" => result.outcome = "returned"
        /\ (pc = "done" /\ ~NoNullStudy) => (result.isError /\ result.error = TypeError)

\* A null study made the matcher throw, and the run returned that error.
C3_Witness ==
    /\ pc = "done" /\ PrimaryOk /\ ~NoNullStudy
    /\ result.outcome = "returned" /\ result.isError /\ result.error = TypeError

(* C4: the mappings collected are exactly the studies with a positive node  *)
(* count, in input order, each with its own designation and counts; a study *)
(* with a zero or missing count is never among them, matched or not.        *)
C4_MappingsAreTheFilteredStudies ==
    (PrimaryOk /\ ~result.isError) =>
        LET handled == SubSeq(Studies, 1, studyIdx - 1)
            kept == SelectSeq(handled, PositiveNodeCount)
        IN  /\ Len(collectionMappings) = Len(kept)
            /\ \A i \in 1..Len(kept) :
                  /\ collectionMappings[i].clinical_study_designation
                        = kept[i].clinical_study_designation
                  /\ collectionMappings[i].numberOfCRDCNodes = kept[i].numberOfCRDCNodes
                  /\ collectionMappings[i].numberOfImageCollections
                        = kept[i].numberOfImageCollections
            /\ pc = "done" =>
                  /\ studyIdx = Len(Studies) + 1
                  /\ result.mappings = collectionMappings

\* A study without a positive count was matched to collections and left out, and a
\* study after it was mapped.
C4_Witness ==
    /\ pc = "done" /\ PrimaryOk /\ ~result.isError
    /\ Len(Studies) = 2
    /\ ~PositiveNodeCount(Studies[1])
    /\ search(Designation(Studies[1]),
              [i \in 1..Len(idcCollections) |-> idcCollections[i].collection_id]) # <<>>
    /\ Len(result.mappings) = 1
    /\ result.mappings[1].clinical_study_designation = Designation(Studies[2])

\* The characters of s are all digits.
IsDecimal(s) == Len(s) > 0 /\ \A i \in 1..Len(s) : s[i] \in Digits

\* The natural number a decimal string denotes.
DecimalValue(s) == ParseDigits(s, 1, Len(s), 10)

RECURSIVE SumOfCounts(_, _)
\* The sum of the natural numbers the counts of the series denote, from series i on.
SumOfCounts(series, i) ==
    IF i > Len(series) THEN <<>>
    ELSE AddDigits(DecimalValue(series[i].ImageCount), SumOfCounts(series, i + 1))

\* The count the claim expects for a series list: the sum, plus 84 for GLIOMA01.
ExpectedCount(series, study) ==
    IF Designation(study) = "GLIOMA01"
    THEN AddDigits(SumOfCounts(series, 1), DigitsOf(84))
    ELSE SumOfCounts(series, 1)

AllDecimal(series) == \A i \in 1..Len(series) : IsDecimal(series[i].ImageCount)

\* 2^53 = 9007199254740992: up to it every natural number is a double.
TwoTo53 == PowerOfTwo(MantissaBits)

\* The archive B links of the study matched last.
LastTciaLinks == IF studyIdx > 1 THEN LinksOf(collectionUrls, "TCIA") ELSE <<>>

(* C5, as stated: for an archive B collection whose image counts are        *)
(* decimal strings, Aggregate_ImageCount is the sum of the counts, plus 84  *)
(* for the study GLIOMA01 and for no other study.                           *)
C5_ImageCountIsTheSum ==
    \A k \in 1..Len(LastTciaLinks) :
        LET meta == LastTciaLinks[k].metadata
            series == tciaCollectionsData[meta.Collection]
        IN  AllDecimal(series) =>
                meta.Aggregate_ImageCount = Finite(FALSE, ExpectedCount(series, LastStudy))

(* C5, amended: for an archive B collection whose image counts are decimal  *)
(* strings and whose sum, with the 84 of GLIOMA01, is at most 2^53,         *)
(* Aggregate_ImageCount is the sum of the counts, plus 84 for the study     *)
(* GLIOMA01 and for no other study.                                         *)
C5_ImageCountIsTheSumUpTo2To53 ==
    \A k \in 1..Len(LastTciaLinks) :
        LET meta == LastTciaLinks[k].metadata
            series == tciaCollectionsData[meta.Collection]
            expected == ExpectedCount(series, LastStudy)
        IN  (AllDecimal(series) /\ ~LessDigits(TwoTo53, expected)) =>
                meta.Aggregate_ImageCount = Finite(FALSE, expected)

\* Links with summed counts were built for GLIOMA01, one of them with 2^53 itself as
\* the sum with 84, and for another study.
C5_Witness ==
    /\ pc = "done" /\ ~result.isError /\ Len(result.mappings) = 2
    /\ \E m \in {1, 2} :
          /\ result.mappings[m].clinical_study_designation = "GLIOMA01"
          /\ \E u \in Range(result.mappings[m].CRDCLinks) :
                u.repository = "TCIA" /\ u.metadata.Aggregate_ImageCount = Num(106)
          /\ \E u \in Range(result.mappings[m].CRDCLinks) :
                /\ u.repository = "TCIA"
                /\ u.metadata.Aggregate_ImageCount = Finite(FALSE, TwoTo53)
          /\ \E u \in Range(result.mappings[3 - m].CRDCLinks) :
                u.repository = "TCIA" /\ u.metadata.Aggregate_ImageCount = Num(22)

\* No value occurs twice in s.
NoRepetition(s) == \A i, j \in 1..Len(s) : s[i] = s[j] => i = j

(* C6: Aggregate_Modality of every archive B link lists the modalities of   *)
(* the series without repetition, in the order first seen, and contains     *)
(* "Histopathology" for the study GLIOMA01.                                 *)
C6_ModalitiesAreDistinct ==
    \A k \in 1..Len(LastTciaLinks) :
        LET modality == LastTciaLinks[k].metadata.Aggregate_Modality
        IN  /\ NoRepetition(modality)
            /\ Designation(LastStudy) = "GLIOMA01" => "Histopathology" \in Range(modality)

\* The archive A identifiers and archive B names the study matched last matches.
LastIdcMatches ==
    search(Designation(LastStudy),
           [i \in 1..Len(idcCollections) |-> idcCollections[i].collection_id])
LastTciaMatches == MatchedWithSeries(LastStudy)

(* C7: the links of a study are one archive A link per archive A match, in  *)
(* rank order, followed by one archive B link per archive B match that has  *)
(* a non-empty series list, in rank order: no B link comes before an A      *)
(* link, a B match without series leaves no entry, and a study that matches *)
(* nothing has no links.                                                    *)
C7_LinksAreAThenB ==
    studyIdx > 1 =>
        LET a == LastIdcMatches
            b == LastTciaMatches
        IN  /\ Len(collectionUrls) = Len(a) + Len(b)
            /\ \A i \in 1..Len(collectionUrls) :
                  IF i <= Len(a)
                  THEN /\ collectionUrls[i].repository = "IDC"
                       /\ collectionUrls[i].url = <<IDC_COLLECTION_BASE_URL, a[i]>>
                       /\ idcCollections[collectionUrls[i].metadata.ref].collection_id = a[i]
                  ELSE /\ collectionUrls[i].repository = "TCIA"
                       /\ collectionUrls[i].url = <<TCIA_COLLECTION_BASE_URL, b[i - Len(a)]>>
                       /\ collectionUrls[i].metadata.Collection = b[i - Len(a)]

\* A study got two archive A links and one archive B link, ranked against the order
\* of the listings, while its other archive B match had no series.
C7_Witness ==
    /\ studyIdx > 1
    /\ Len(LastIdcMatches) = 2 /\ LastIdcMatches[1] = "icdc_glioma"
    /\ Len(search(Designation(LastStudy), tciaCollections)) = 2
    /\ tciaCollectionsData["ICDC-Glioma-Path"] = <<>>
    /\ Len(collectionUrls) = 3
    /\ collectionUrls[3].repository = "TCIA"

\* A link as its reader sees it: the archive A metadata is the collection record.
Seen(link, idcColls) ==
    IF link.repository = "IDC"
    THEN [link EXCEPT !.metadata = idcColls[link.metadata.ref]]
    ELSE link

SeenLinks(urls, idcColls) == [i \in 1..Len(urls) |-> Seen(urls[i], idcColls)]

\* The archive A collections as they were fetched.
FetchedIdcCollections ==
    SelectSeq(IdcListing,
              LAMBDA r : \E i \in 1..Len(idcCollections) :
                            idcCollections[i].collection_id = r.collection_id)

\* The links of a study matched on its own against the fetched data.
LinksAlone(study) ==
    LET alone == mapMatchesToStudy(study, FetchedIdcCollections, tciaCollections,
                                   tciaCollectionsData)
    IN  SeenLinks(alone.value, alone.collections)

(* C8: the links emitted for a study are those of the study matched on its  *)
(* own, whatever other studies are processed before or after it: a mapping  *)
(* already emitted is not changed by a later study.                         *)
C8_StudiesAreIndependent ==
    \A i \in 1..Len(collectionMappings) :
        \E k \in 1..Len(Studies) :
            /\ ~IsNull(Studies[k])
            /\ Designation(Studies[k]) = collectionMappings[i].clinical_study_designation
            /\ SeenLinks(collectionMappings[i].CRDCLinks, idcCollections)
                  = LinksAlone(Studies[k])

SeriesRequests == SelectSeq(requests, LAMBDA r : r.kind = "series")

(* C9: getTciaCollectionsData ends with exactly the names of its list as    *)
(* keys: a name whose request failed maps to the empty list, a name whose   *)
(* request succeeded maps to the series fetched, and a failure does not     *)
(* stop the requests for the later names.                                   *)
C9_SeriesDataCoversEveryName ==
    /\ \A i \in 1..Len(SeriesRequests) :
          LET r == SeriesRequests[i]
          IN  /\ r.arg = tciaCollections[i]
              /\ i < seriesIdx =>
                    /\ r.status # "inflight"
                    /\ r.arg \in DOMAIN tciaCollectionsData
                    /\ tciaCollectionsData[r.arg] = IF r.status = "failed" THEN <<>> ELSE r.data
    /\ DOMAIN tciaCollectionsData \subseteq Range(tciaCollections)
    /\ (Collecting \/ (pc = "done" /\ PrimaryOk)) =>
          /\ Len(SeriesRequests) = Len(tciaCollections)
          /\ DOMAIN tciaCollectionsData = Range(tciaCollections)

\* The request for the first name failed and the one for the second name was made
\* and answered with series.
C9_Witness ==
    /\ pc = "collect"
    /\ Len(SeriesRequests) = 2
    /\ SeriesRequests[1].status = "failed"
    /\ SeriesRequests[2].status = "ok"
    /\ tciaCollectionsData[tciaCollections[1]] = <<>>
    /\ tciaCollectionsData[tciaCollections[2]] # <<>>

(* C10: the retrieval calls are made one at a time in the order primary     *)
(* query, archive A listing, archive B listing, one series request per name *)
(* in list order; each is made at most once, the next only after the        *)
(* previous one ended, and none after a failed primary query.               *)
C10_CallsAreSequential ==
    /\ \A i \in 1..Len(requests) :
          /\ requests[i].kind =
                CASE i = 1 -> "primary" [] i = 2 -> "idc" [] i = 3 -> "tcia"
                  [] OTHER -> "series"
          /\ i > 3 => (i - 3 <= Len(tciaCollections)
                        /\ requests[i].arg = tciaCollections[i - 3])
          /\ i < Len(requests) => requests[i].status # "inflight"
          /\ i > 1 => requests[1].status = "ok"
    /\ NoRepetition(tciaCollections)
    /\ ((Collecting \/ pc = "done") /\ PrimaryOk) =>
          Len(requests) = 3 + Len(tciaCollections)
    /\ PrimaryFailed => (pc \in {"endedPrimary", "done"} /\ Len(requests) = 1)

\* Five calls were made, the archive A listing and a series request among them
\* failed, and the run went on.
C10_Witness ==
    /\ pc = "done"
    /\ Len(requests) = 5
    /\ requests[2].status = "failed"
    /\ requests[4].status = "failed"
    /\ requests[5].status = "ok"

\* The primary query was answered, and the answer held no studiesByProgram.
StudiesUndefined == PrimaryOk /\ Received(1) /\ IsUndefined(icdcStudies)

(* C11: when the primary query is answered without data.studiesByProgram,   *)
(* the study list is undefined and the run tolerates it: the archive        *)
(* requests are still made, collectMappings iterates over no study and does *)
(* not fail, and the run returns the empty mapping sequence, neither an     *)
(* error value nor a raised failure.                                        *)
C11_UndefinedStudiesTolerated ==
    StudiesUndefined =>
        /\ ~result.isError
        /\ result.outcome # "raised"
        /\ studyIdx = 1
        /\ collectionMappings = <<>>
        /\ pc = "done" =>
              /\ result.outcome = "returned"
              /\ result.mappings = <<>>
              /\ Len(requests) = 3 + Len(tciaCollections)
              /\ requests[2].kind = "idc" /\ requests[2].status # "inflight"
              /\ requests[3].kind = "tcia" /\ requests[3].status # "inflight"
              /\ \A i \in 1..Len(tciaCollections) :
                    /\ requests[3 + i].kind = "series"
                    /\ requests[3 + i].arg = tciaCollections[i]
                    /\ requests[3 + i].status # "inflight"

\* The study list was undefined, both listings and two series requests were
\* answered, and the run returned the empty sequence.
C11_Witness ==
    /\ StudiesUndefined
    /\ pc = "done"
    /\ OkKind("idc") /\ OkKind("tcia") /\ OkKind("series")
    /\ idcCollections # <<>>
    /\ Len(requests) = 5
    /\ result = ReturnMappings(<<>>)

====
